---- MODULE Spec2Model ----
(***************************************************************************)
(* Model of the chat context store (ChatProvider / useChat).               *)
(*                                                                         *)
(* The store is a React component holding four useState cells.  The three  *)
(* remote-backed operations are async functions: the part before the first *)
(* await runs when the operation is called, the part after the awaits runs *)
(* when the response arrives.  Between the two, any other operation may    *)
(* run.  The functions are closures of the render that created them:       *)
(* deleteConversation reads currentConversationId from the render current  *)
(* when it was called, not the state current when its response arrives.    *)
(***************************************************************************)
EXTENDS Integers, Sequences, FiniteSets, Bags, TLC

\* ------------------------------------------------------------------ bounds
MaxPending == 2     \* requests in flight at one time
MaxMessages == 2    \* addMessage is not called on a list this long
MaxClock == 2       \* distinct milliseconds in which addMessage is called

\* ------------------------------------------------------------ value spaces
None == "null"                  \* the null of `string | null`
Undefined == "undefined"        \* a field the wire object does not have

ConversationIds == {"c1", "c2"}     \* conversations the UI opens
DeletableIds == {"c1"}              \* conversations the UI deletes
AgentNames == {"agentA"}
AddInputs == {<<"hi", "user">>, <<"", "bot">>}

\* new Date(value): a wire timestamp string becomes an instant (ms since the
\* epoch); a value that does not parse, undefined included, becomes the
\* Invalid Date.
IsoStrings == {"1970-01-01T00:00:00.007Z", "1970-01-01T00:00:00.009Z"}
DateParse(value) == IF value = "1970-01-01T00:00:00.007Z" THEN 7 ELSE 9
InvalidDate == [valid |-> FALSE, time |-> 0]
NewDate(value) ==
  IF value \in IsoStrings THEN [valid |-> TRUE, time |-> DateParse(value)]
  ELSE InvalidDate

\* Wire messages of GET /api/conversations/{id}.
WireObject(id, text, sender, timestamp) ==
  [type |-> "object", id |-> id, text |-> text, sender |-> sender, timestamp |-> timestamp]
WireNull == [type |-> "null", id |-> Undefined, text |-> Undefined,
             sender |-> Undefined, timestamp |-> Undefined]
W1 == WireObject("m1", "hello", "user", "1970-01-01T00:00:00.007Z")
W2 == WireObject("m2", "hi there", "bot", "1970-01-01T00:00:00.009Z")
WPartial == WireObject("m3", Undefined, "bot", Undefined)

\* Parsed JSON bodies of GET /api/conversations/{id}: `messages` is an array,
\* or is missing.
JsArray(elems) == [type |-> "array", elems |-> elems]
JsMissing == [type |-> "undefined", elems |-> <<>>]
\* The remote store's history of each conversation, and the bodies it may
\* send instead: a message without text and timestamp, a null message, no
\* messages field.
History(id) == IF id = "c1" THEN <<W1>> ELSE <<W2, W1>>
HistoryBodies(id) ==
  { [messages |-> JsArray(History(id))],
    [messages |-> JsArray(<<WPartial>>)],
    [messages |-> JsArray(<<WireNull>>)],
    [messages |-> JsMissing] }

\* Conversation summaries of GET /api/agents/{agentName}/conversations.
Conversation(id) ==
  [id |-> id, agent_name |-> "agentA", title |-> id, created_at |-> "t0",
   updated_at |-> "t0", message_count |-> 1]
ConversationBodies ==
  { <<Conversation("c2"), Conversation("c1"), Conversation("c3")>>, <<>> }

\* What a fetch can come to: the call throws, the status is not ok, the body
\* is not JSON, or the status is ok with a parsed body.
Network == [kind |-> "network"]
Status == [kind |-> "status"]
BadJson == [kind |-> "badjson"]
Ok(body) == [kind |-> "ok", body |-> body]

LoadResponses(id) == {Network, Status, BadJson} \cup {Ok(b) : b \in HistoryBodies(id)}
ListResponses == {Network, Status, BadJson} \cup {Ok(b) : b \in ConversationBodies}
DeleteResponses == {Network, Status, Ok(<<>>)}

\* ------------------------------------------------------------------- state
VARIABLES
  messages,                \* useState<Message[]>
  conversations,           \* useState<Conversation[]>
  currentConversationId,   \* useState<string | null>
  isLoading,               \* useState(false)
  pending,                 \* bag of the calls suspended at their await
  now,                     \* the latest value Date.now() returned, 0 before any
  last                     \* history: the step just taken and how it ended
                           \* (applied: the response was ok and the setters ran;
                           \* overlapped: the pointer an applied load replaced
                           \* when the step before applied another load, which
                           \* this call was then waiting beside;
                           \* droppedLocal: the applied load replaced a list
                           \* holding messages typed locally;
                           \* reset: the delete called clearMessages)

vars == <<messages, conversations, currentConversationId, isLoading, pending, now, last>>

\* A suspended call: its argument and the currentConversationId its closure holds.
Request(op, id, closure) == [op |-> op, id |-> id, closure |-> closure]

Init ==
  /\ messages = <<>>
  /\ conversations = <<>>
  /\ currentConversationId = None
  /\ isLoading = FALSE
  /\ pending = EmptyBag
  /\ now = 0
  /\ last = [op |-> "init"]

Suspend(request) == pending (+) SetToBag({request})
Resumed(request) == pending (-) SetToBag({request})

\* The outstanding requests of each operation.
LoadRequests == {r \in BagToSet(pending) : r.op = "loadConversation"}
ListRequests == {r \in BagToSet(pending) : r.op = "loadAgentConversations"}
DeleteRequests == {r \in BagToSet(pending) : r.op = "deleteConversation"}

\* -------------------------------------------------------------- addMessage
\* Date.now(): the millisecond of the previous reading or the next one
\* (milliseconds in which addMessage is not called are not counted).
ClockReadings == IF now = 0 THEN {1} ELSE {t \in {now, now + 1} : t <= MaxClock}

\* The Message built by addMessage: the id is the wall clock's millisecond
\* as a decimal string, the timestamp that same reading (Date.now() and
\* new Date() are taken within one synchronous call).
NewMessage(text, sender, t) ==
  [id |-> ToString(t), text |-> text, sender |-> sender,
   timestamp |-> [valid |-> TRUE, time |-> t]]

\* Faulty variant: the new message put in front, [newMessage, ...prev].
AppendMessagePrepends(prev, newMessage) == <<newMessage>> \o prev

\* The updater passed to setMessages: prev => [...prev, newMessage].
AppendMessage(prev, newMessage) == Append(prev, newMessage)

\* Faulty variant: a message added ends the loading state, setIsLoading(false).
AddMessageEndsLoading(prevId, prevConversations, loading) ==
  [currentConversationId |-> prevId, conversations |-> prevConversations,
   isLoading |-> FALSE]

\* addMessage calls setMessages and no other setter: the other three cells
\* are after the call what they were before.
AddMessageKeeps(prevId, prevConversations, loading) ==
  [currentConversationId |-> prevId, conversations |-> prevConversations,
   isLoading |-> loading]

addMessage(text, sender, t) ==
  /\ Len(messages) < MaxMessages
  /\ messages' = AppendMessage(messages, NewMessage(text, sender, t))
  /\ LET kept == AddMessageKeeps(currentConversationId, conversations, isLoading)
     IN /\ currentConversationId' = kept.currentConversationId
        /\ conversations' = kept.conversations
        /\ isLoading' = kept.isLoading
  /\ now' = t
  /\ last' = [op |-> "addMessage"]
  /\ UNCHANGED pending

\* ------------------------------------ clearMessages, createNewConversation
\* setMessages([]); setCurrentConversationId(null)
ClearMessagesEffect == [messages |-> <<>>, currentConversationId |-> None]

\* Faulty variant: the pointer is left alone, setCurrentConversationId(null) forgotten.
CreateNewConversationKeepsPointer ==
  [messages |-> <<>>, currentConversationId |-> currentConversationId]

CreateNewConversationEffect == [messages |-> <<>>, currentConversationId |-> None]

clearMessages ==
  /\ messages' = ClearMessagesEffect.messages
  /\ currentConversationId' = ClearMessagesEffect.currentConversationId
  /\ last' = [op |-> "clearMessages"]
  /\ UNCHANGED <<conversations, isLoading, pending, now>>

createNewConversation ==
  /\ messages' = CreateNewConversationEffect.messages
  /\ currentConversationId' = CreateNewConversationEffect.currentConversationId
  /\ last' = [op |-> "createNewConversation"]
  /\ UNCHANGED <<conversations, isLoading, pending, now>>

\* -------------------------------------------------------- loadConversation
\* A message of the list was built by addMessage: its id is a clock reading
\* (the ids of the remote store are not decimal numbers).
HasLocalMessage(list) ==
  \E k \in 1..Len(list) : list[k].id \in {ToString(t) : t \in 1..MaxClock}

\* history.messages.map(...) throws a TypeError when messages is not an array
\* or an element is null; a missing field of an element is just undefined.
CanMap(body) ==
  /\ body.messages.type = "array"
  /\ \A k \in 1..Len(body.messages.elems) : body.messages.elems[k].type = "object"

MapMessages(elems) ==
  [k \in 1..Len(elems) |->
     [id |-> elems[k].id, text |-> elems[k].text, sender |-> elems[k].sender,
      timestamp |-> NewDate(elems[k].timestamp)]]

\* Faulty variant: the history is appended to the list, [...prev, ...messages].
LoadConversationTryMerges(conversationId, response, prevMessages, prevId) ==
  IF response.kind = "ok" /\ CanMap(response.body)
  THEN [threw |-> FALSE,
        messages |-> prevMessages \o MapMessages(response.body.messages.elems),
        currentConversationId |-> conversationId]
  ELSE [threw |-> response.kind # "status", messages |-> prevMessages,
        currentConversationId |-> prevId]

\* Faulty variant: the pointer is set only when no conversation is open, so a
\* second response replaces the messages under the pointer of the first.
LoadConversationTryKeepsOpenPointer(conversationId, response, prevMessages, prevId) ==
  IF response.kind = "ok" /\ CanMap(response.body)
  THEN [threw |-> FALSE, messages |-> MapMessages(response.body.messages.elems),
        currentConversationId |-> IF prevId = None THEN conversationId ELSE prevId]
  ELSE [threw |-> response.kind # "status", messages |-> prevMessages,
        currentConversationId |-> prevId]

\* Faulty variant: setCurrentConversationId(conversationId) moved ahead of the fetch.
LoadConversationTryPointerFirst(conversationId, response, prevMessages, prevId) ==
  IF response.kind = "ok" /\ CanMap(response.body)
  THEN [threw |-> FALSE, messages |-> MapMessages(response.body.messages.elems),
        currentConversationId |-> conversationId]
  ELSE [threw |-> response.kind # "status", messages |-> prevMessages,
        currentConversationId |-> conversationId]

\* The try block after `await fetch`: what the two setters are left at, and
\* whether the block threw.
LoadConversationTry(conversationId, response, prevMessages, prevId) ==
  IF response.kind = "ok" /\ CanMap(response.body)
  THEN [threw |-> FALSE, messages |-> MapMessages(response.body.messages.elems),
        currentConversationId |-> conversationId]
  ELSE [threw |-> response.kind # "status", messages |-> prevMessages,
        currentConversationId |-> prevId]

\* Faulty variant: the error is rethrown after it is logged.
LoadConversationCatchRethrows(threw) == IF threw THEN "rejected" ELSE "resolved"

\* catch: console.error and nothing else, so the promise resolves.
LoadConversationCatch(threw) == "resolved"

\* Faulty variant: setIsLoading(false) as the last statement of the try block.
LoadConversationNoFinally(threw, loading) == IF threw THEN loading ELSE FALSE

\* finally: setIsLoading(false)
LoadConversationFinally(threw, loading) == FALSE

loadConversation(conversationId) ==
  /\ BagCardinality(pending) < MaxPending
  /\ isLoading' = TRUE
  /\ pending' = Suspend(Request("loadConversation", conversationId, None))
  /\ last' = [op |-> "loadConversation"]
  /\ UNCHANGED <<messages, conversations, currentConversationId, now>>

loadConversationResume(request, response) ==
  /\ request.op = "loadConversation"
  /\ LET try == LoadConversationTry(request.id, response, messages, currentConversationId)
     IN /\ messages' = try.messages
        /\ currentConversationId' = try.currentConversationId
        /\ isLoading' = LoadConversationFinally(try.threw, isLoading)
        /\ last' = [op |-> "loadConversation.return",
                    applied |-> response.kind = "ok" /\ ~try.threw,
                    overlapped |-> IF /\ response.kind = "ok" /\ ~try.threw
                                      /\ last.op = "loadConversation.return"
                                      /\ last.applied
                                   THEN currentConversationId ELSE None,
                    droppedLocal |-> /\ response.kind = "ok" /\ ~try.threw
                                     /\ HasLocalMessage(messages),
                    result |-> LoadConversationCatch(try.threw)]
  /\ pending' = Resumed(request)
  /\ UNCHANGED <<conversations, now>>

\* -------------------------------------------------- loadAgentConversations
\* Faulty variant: the returned set is merged into the cached list.
LoadAgentConversationsTryMerges(response, prevConversations) ==
  IF response.kind = "ok"
  THEN [threw |-> FALSE, conversations |-> prevConversations \o response.body]
  ELSE [threw |-> response.kind # "status", conversations |-> prevConversations]

\* The try block after `await fetch`: setConversations(agentConversations).
LoadAgentConversationsTry(response, prevConversations) ==
  IF response.kind = "ok"
  THEN [threw |-> FALSE, conversations |-> response.body]
  ELSE [threw |-> response.kind # "status", conversations |-> prevConversations]

LoadAgentConversationsCatch(threw) == "resolved"

loadAgentConversations(agentName) ==
  /\ BagCardinality(pending) < MaxPending
  /\ pending' = Suspend(Request("loadAgentConversations", agentName, None))
  /\ last' = [op |-> "loadAgentConversations"]
  /\ UNCHANGED <<messages, conversations, currentConversationId, isLoading, now>>

loadAgentConversationsResume(request, response) ==
  /\ request.op = "loadAgentConversations"
  /\ LET try == LoadAgentConversationsTry(response, conversations)
     IN /\ conversations' = try.conversations
        /\ last' = [op |-> "loadAgentConversations.return",
                    applied |-> response.kind = "ok" /\ ~try.threw,
                    result |-> LoadAgentConversationsCatch(try.threw)]
  /\ pending' = Resumed(request)
  /\ UNCHANGED <<messages, currentConversationId, isLoading, now>>

\* ------------------------------------------------------ deleteConversation
\* prev => prev.filter(conv => conv.id !== conversationId)
FilterConversations(prev, conversationId) ==
  LET Keep(conv) == conv.id # conversationId IN SelectSeq(prev, Keep)

\* Faulty variant: the reset is done whatever conversation is open.
DeleteAlwaysMatches(closureId, conversationId) == TRUE

\* `currentConversationId === conversationId` reads the closure's value.
DeleteMatchesCurrent(closureId, conversationId) == closureId = conversationId

\* Faulty variant: the entry is filtered out before the status is looked at.
DeleteConversationTryOptimistic(conversationId, closureId, response, prevConversations, prevMessages, prevId) ==
  [threw |-> response.kind = "network",
   conversations |-> FilterConversations(prevConversations, conversationId),
   messages |-> IF response.kind = "ok" /\ DeleteMatchesCurrent(closureId, conversationId)
                THEN ClearMessagesEffect.messages ELSE prevMessages,
   currentConversationId |->
     IF response.kind = "ok" /\ DeleteMatchesCurrent(closureId, conversationId)
     THEN ClearMessagesEffect.currentConversationId ELSE prevId]

\* The try block after `await fetch` of the DELETE.
DeleteConversationTry(conversationId, closureId, response, prevConversations, prevMessages, prevId) ==
  IF response.kind = "ok"
  THEN [threw |-> FALSE,
        conversations |-> FilterConversations(prevConversations, conversationId),
        messages |-> IF DeleteMatchesCurrent(closureId, conversationId)
                     THEN ClearMessagesEffect.messages ELSE prevMessages,
        currentConversationId |->
          IF DeleteMatchesCurrent(closureId, conversationId)
          THEN ClearMessagesEffect.currentConversationId ELSE prevId]
  ELSE [threw |-> response.kind # "status", conversations |-> prevConversations,
        messages |-> prevMessages, currentConversationId |-> prevId]

DeleteConversationCatch(threw) == "resolved"

\* Faulty variant: the reset drops the loading flag with the messages.
DeleteConversationLoadingReset(loading, reset) == IF reset THEN FALSE ELSE loading

\* Neither deleteConversation nor the clearMessages it calls has a
\* setIsLoading: the flag is after the call what it was before.
DeleteConversationLoading(loading, reset) == loading

\* The function called is the one of the latest render, and React has
\* rendered the state current at the call: its closure holds that state's
\* currentConversationId, and keeps it while the call is suspended.
deleteConversation(conversationId) ==
  /\ BagCardinality(pending) < MaxPending
  /\ pending' = Suspend(Request("deleteConversation", conversationId, currentConversationId))
  /\ last' = [op |-> "deleteConversation"]
  /\ UNCHANGED <<messages, conversations, currentConversationId, isLoading, now>>

deleteConversationResume(request, response) ==
  /\ request.op = "deleteConversation"
  /\ LET try == DeleteConversationTry(request.id, request.closure, response,
                                      conversations, messages, currentConversationId)
         reset == response.kind = "ok" /\ DeleteMatchesCurrent(request.closure, request.id)
     IN /\ conversations' = try.conversations
        /\ messages' = try.messages
        /\ currentConversationId' = try.currentConversationId
        /\ isLoading' = DeleteConversationLoading(isLoading, reset)
        /\ last' = [op |-> "deleteConversation.return",
                    applied |-> response.kind = "ok" /\ ~try.threw,
                    reset |-> reset,
                    result |-> DeleteConversationCatch(try.threw)]
  /\ pending' = Resumed(request)
  /\ UNCHANGED now

\* ------------------------------------------------------------ setIsLoading
setIsLoading(loading) ==
  /\ isLoading' = loading
  /\ last' = [op |-> "setIsLoading"]
  /\ UNCHANGED <<messages, conversations, currentConversationId, pending, now>>

\* ----------------------------------------------------------------- useChat
\* createContext<ChatContextType | undefined>(undefined)
ChatContextDefault == [type |-> "undefined"]

\* The value ChatProvider hands to its subtree.
ProviderValue ==
  [type |-> "store", messages |-> messages, conversations |-> conversations,
   currentConversationId |-> currentConversationId, isLoading |-> isLoading]

\* useContext(ChatContext): the nearest provider's value, else the default.
UseContext(inProvider) == IF inProvider THEN ProviderValue ELSE ChatContextDefault

\* Faulty variant: the undefined check is missing.
UseChatUnchecked(context) == [result |-> "returned", value |-> context]

\* useChat: throws on undefined, else returns the context.
UseChat(context) ==
  IF context.type = "undefined"
  THEN [result |-> "threw", value |-> context]
  ELSE [result |-> "returned", value |-> context]

useChat(inProvider) ==
  /\ last' = [op |-> "useChat", inProvider |-> inProvider,
              result |-> UseChat(UseContext(inProvider)).result,
              value |-> UseChat(UseContext(inProvider)).value]
  /\ UNCHANGED <<messages, conversations, currentConversationId, isLoading, pending, now>>

\* -------------------------------------------------------------------- Next
\* A response arrives and the suspended call runs to its end.
ResumeLoad ==
  \E request \in BagToSet(pending) : \E response \in LoadResponses(request.id) :
    loadConversationResume(request, response)

ResumeList ==
  \E request \in BagToSet(pending) : \E response \in ListResponses :
    loadAgentConversationsResume(request, response)

ResumeDelete ==
  \E request \in BagToSet(pending) : \E response \in DeleteResponses :
    deleteConversationResume(request, response)

Resume == ResumeLoad \/ ResumeList \/ ResumeDelete

Next ==
  \/ \E input \in AddInputs : \E t \in ClockReadings : addMessage(input[1], input[2], t)
  \/ clearMessages
  \/ createNewConversation
  \/ \E id \in ConversationIds : loadConversation(id)
  \/ \E agentName \in AgentNames : loadAgentConversations(agentName)
  \/ \E id \in DeletableIds : deleteConversation(id)
  \/ \E loading \in BOOLEAN : setIsLoading(loading)
  \/ Resume

\* The store and its remote collaborator.
Spec == Init /\ [][Next]_vars

\* The remote-backed operations alone, with the direct setter, every request
\* getting a response or throwing: no suspended call of any of the three
\* operations waits for ever.
RemoteNext ==
  \/ \E id \in ConversationIds : loadConversation(id)
  \/ \E agentName \in AgentNames : loadAgentConversations(agentName)
  \/ \E id \in DeletableIds : deleteConversation(id)
  \/ \E loading \in BOOLEAN : setIsLoading(loading)
  \/ Resume

FairSpec ==
  /\ Init /\ [][RemoteNext]_vars
  /\ WF_vars(ResumeLoad) /\ WF_vars(ResumeList) /\ WF_vars(ResumeDelete)

\* Components that call the hook, inside and outside the provider, while the
\* store is driven through its local operations and loads.
HookNext ==
  \/ \E inProvider \in BOOLEAN : useChat(inProvider)
  \/ \E id \in ConversationIds : loadConversation(id)
  \/ ResumeLoad
  \/ \E input \in AddInputs : \E t \in ClockReadings : addMessage(input[1], input[2], t)
  \/ clearMessages
  \/ createNewConversation
  \/ \E loading \in BOOLEAN : setIsLoading(loading)

HookSpec == Init /\ [][HookNext]_vars

\* A conversation list from which conversations are opened, one after or
\* over another, and put away: the list fetches, the loads, their responses
\* and the resets.  Nothing is typed and the direct setter of the flag is
\* unused, so messages and isLoading are written by the loads and resets alone.
LoadNext ==
  \/ \E agentName \in AgentNames : loadAgentConversations(agentName)
  \/ ResumeList
  \/ \E id \in ConversationIds : loadConversation(id)
  \/ ResumeLoad
  \/ clearMessages
  \/ createNewConversation

LoadSpec == Init /\ [][LoadNext]_vars

\* Typing while a conversation is being opened: a load is called from a list
\* that holds no message typed locally, and addMessage is called only while
\* a load is outstanding.  A local message in the list when a response
\* arrives was then added after that response's request was issued.
PendencyNext ==
  \/ \E id \in ConversationIds : ~HasLocalMessage(messages) /\ loadConversation(id)
  \/ \E input \in AddInputs : \E t \in ClockReadings :
       LoadRequests # {} /\ addMessage(input[1], input[2], t)
  \/ ResumeLoad

PendencySpec == Init /\ [][PendencyNext]_vars

\* ================================================================== claims
\* The messages list is the server history `elems`, message by message, with
\* the wire timestamp turned into a Date.
IsRemapOf(list, elems) ==
  /\ Len(list) = Len(elems)
  /\ \A k \in 1..Len(elems) :
       /\ list[k].id = elems[k].id
       /\ list[k].text = elems[k].text
       /\ list[k].sender = elems[k].sender
       /\ list[k].timestamp = NewDate(elems[k].timestamp)

\* C1: a loadConversation(id) whose response is ok with a history that can be
\* remapped leaves messages equal to that history remapped, in order, and
\* currentConversationId equal to id; one whose fetch throws or whose status
\* is not ok leaves messages and currentConversationId as they were.
C1_LoadReplacesOrKeeps ==
  [][last'.op = "loadConversation.return" =>
     \A request \in LoadRequests : \A response \in LoadResponses(request.id) :
       loadConversationResume(request, response) =>
         /\ (response.kind = "ok" /\ CanMap(response.body)) =>
              /\ IsRemapOf(messages', response.body.messages.elems)
              /\ currentConversationId' = request.id
         /\ response.kind \in {"network", "status"} =>
              /\ messages' = messages
              /\ currentConversationId' = currentConversationId]_vars

\* A load has been applied: two remapped messages under the pointer c2.
C1_Witness ==
  /\ last.op = "loadConversation.return" /\ last.applied
  /\ currentConversationId = "c2"
  /\ IsRemapOf(messages, <<W2, W1>>)

\* C2: when a loadConversation call returns, isLoading is false, whatever the
\* response was; and, every request being answered, a pending load leads to
\* isLoading being false.
C2_LoadingReset ==
  /\ [](last.op = "loadConversation.return" => ~isLoading)
  /\ ((LoadRequests # {}) ~> ~isLoading)

\* A load has failed and returned, and the flag is down.
C2_Witness ==
  /\ last.op = "loadConversation.return" /\ ~last.applied
  /\ ~isLoading

\* The list without its entry of the given id, the others in their order.
WithoutEntry(list, id) ==
  IF \E k \in 1..Len(list) : list[k].id = id
  THEN LET k == CHOOSE j \in 1..Len(list) : list[j].id = id
       IN SubSeq(list, 1, k - 1) \o SubSeq(list, k + 1, Len(list))
  ELSE list

\* C3: a deleteConversation(id) whose response is ok removes the entry id from
\* conversations and keeps the others in order; it empties messages and nulls
\* currentConversationId if the id that was current when it was called is id,
\* and otherwise leaves both as they are.
C3_DeleteRemovesAndResets ==
  [][last'.op = "deleteConversation.return" =>
     \A request \in DeleteRequests : \A response \in DeleteResponses :
       (deleteConversationResume(request, response) /\ response.kind = "ok") =>
         /\ conversations' = WithoutEntry(conversations, request.id)
         /\ request.closure = request.id =>
              /\ messages' = <<>>
              /\ currentConversationId' = None
         /\ request.closure # request.id =>
              /\ messages' = messages
              /\ currentConversationId' = currentConversationId]_vars

\* c1 has been deleted from <<c2, c1, c3>>; another conversation stays open.
C3_Witness ==
  /\ last.op = "deleteConversation.return" /\ last.applied
  /\ conversations = <<Conversation("c2"), Conversation("c3")>>
  /\ currentConversationId = "c2"
  /\ messages # <<>>

\* C4: a deleteConversation(id) whose fetch throws or whose status is not ok
\* changes none of conversations, messages and currentConversationId, and
\* neither does the call itself before the response.
C4_DeleteFailureKeeps ==
  [][/\ last'.op = "deleteConversation.return" =>
          \A request \in DeleteRequests : \A response \in {Network, Status} :
            deleteConversationResume(request, response) =>
            /\ conversations' = conversations
            /\ messages' = messages
            /\ currentConversationId' = currentConversationId
     /\ last'.op = "deleteConversation" =>
          \A id \in DeletableIds :
            deleteConversation(id) =>
            /\ conversations' = conversations
            /\ messages' = messages
            /\ currentConversationId' = currentConversationId]_vars

\* A delete of the open conversation has failed: it is still listed and open.
C4_Witness ==
  /\ last.op = "deleteConversation.return" /\ ~last.applied
  /\ \E k \in 1..Len(conversations) : conversations[k].id = currentConversationId
  /\ messages # <<>>

\* The ids addMessage has generated: the clock readings 1..now.
IssuedIds == {ToString(t) : t \in 1..now}

\* C5: the id of a message appended by addMessage differs from the id of
\* every message addMessage appended before.
C5_DistinctIds ==
  [][last'.op = "addMessage" =>
     \A input \in AddInputs : \A t \in ClockReadings :
       addMessage(input[1], input[2], t) =>
         messages'[Len(messages')].id \notin IssuedIds]_vars

\* C6: addMessage(text, sender) makes the list one longer, keeps what was
\* there as a prefix and puts a message with that text and sender at the end.
C6_AppendInOrder ==
  [][last'.op = "addMessage" =>
     \A input \in AddInputs : \A t \in ClockReadings :
       addMessage(input[1], input[2], t) =>
         /\ Len(messages') = Len(messages) + 1
         /\ SubSeq(messages', 1, Len(messages)) = messages
         /\ messages'[Len(messages')].text = input[1]
         /\ messages'[Len(messages')].sender = input[2]]_vars

\* Two appends in a row: "hi" from the user, then "" from the bot.
C6_Witness ==
  /\ last.op = "addMessage"
  /\ Len(messages) = MaxMessages
  /\ messages[Len(messages) - 1].text = "hi"
  /\ messages[Len(messages)].text = ""

\* C7: clearMessages and createNewConversation leave messages empty and
\* currentConversationId null, suspend no call, and leave conversations and
\* isLoading as they were.
C7_ResetClears ==
  [][(last'.op \in {"clearMessages", "createNewConversation"}
        /\ (clearMessages \/ createNewConversation)) =>
       /\ messages' = <<>>
       /\ currentConversationId' = None
       /\ pending' = pending
       /\ conversations' = conversations
       /\ isLoading' = isLoading]_vars

\* A new conversation has been started with a load in flight and a cached list.
C7_Witness ==
  /\ last.op = "createNewConversation"
  /\ isLoading
  /\ conversations # <<>>
  /\ pending # EmptyBag

\* C8: a loadAgentConversations whose response is ok leaves conversations
\* equal to the returned list; any other response leaves it as it was.
\* messages and currentConversationId are unchanged either way.
C8_ListReplaces ==
  [][last'.op = "loadAgentConversations.return" =>
     \A request \in ListRequests : \A response \in ListResponses :
       loadAgentConversationsResume(request, response) =>
         /\ response.kind = "ok" => conversations' = response.body
         /\ response.kind # "ok" => conversations' = conversations
         /\ messages' = messages
         /\ currentConversationId' = currentConversationId]_vars

\* The three-entry list has been loaded while a conversation is open.
C8_Witness ==
  /\ last.op = "loadAgentConversations.return" /\ last.applied
  /\ Len(conversations) = Cardinality(ConversationIds) + 1
  /\ currentConversationId # None

Returns == {"loadConversation.return", "loadAgentConversations.return",
            "deleteConversation.return"}

\* C9: the promise of a remote-backed operation resolves, whatever the
\* response: a thrown fetch, a status that is not ok, a body that does not
\* parse or cannot be remapped.
C9_AlwaysResolves == last.op \in Returns => last.result = "resolved"

\* A load whose response was not applied has returned by resolving.
C9_Witness ==
  /\ last.op = "loadConversation.return" /\ ~last.applied
  /\ last.result = "resolved"

\* C10: useChat outside a ChatProvider throws; inside one it returns the
\* store's state.
C10_UseChatFailsFast ==
  last.op = "useChat" =>
    /\ ~last.inProvider => last.result = "threw"
    /\ last.inProvider =>
         /\ last.result = "returned"
         /\ last.value.type = "store"
         /\ last.value.messages = messages
         /\ last.value.conversations = conversations
         /\ last.value.currentConversationId = currentConversationId
         /\ last.value.isLoading = isLoading

\* The hook has thrown outside the provider of a store that holds messages.
C10_Witness ==
  /\ last.op = "useChat" /\ ~last.inProvider /\ last.result = "threw"
  /\ messages # <<>>

\* C11: with the direct setter unused, isLoading is true whenever a
\* loadConversation request is outstanding, overlapping loads included.
C11_LoadingWhileOutstanding == LoadRequests # {} => isLoading

\* C12: the reset of a deleteConversation(id) whose response is ok is decided
\* by currentConversationId as it is when the response is applied: if it is
\* id then, messages are emptied and the pointer nulled (the pointer is not id
\* afterwards); if it is another conversation then, its messages and the
\* pointer are left as they are.
C12_ResetByPointerAtResponse ==
  [][last'.op = "deleteConversation.return" =>
     \A request \in DeleteRequests :
       deleteConversationResume(request, Ok(<<>>)) =>
         /\ currentConversationId = request.id =>
              /\ messages' = <<>>
              /\ currentConversationId' = None
         /\ currentConversationId # request.id =>
              /\ messages' = messages
              /\ currentConversationId' = currentConversationId]_vars

\* The messages are a remapped history of the conversation the pointer names,
\* or there are none and no conversation is open.
PointerAndMessagesAgree ==
  IF currentConversationId = None THEN messages = <<>>
  ELSE \E body \in HistoryBodies(currentConversationId) :
         CanMap(body) /\ messages = MapMessages(body.messages.elems)

\* C13: with loads overlapping, every response that arrives is applied,
\* whichever call was issued first: an ok response leaves messages and
\* currentConversationId those of that response, over whatever an earlier
\* response left; the other outstanding requests stay outstanding; and the
\* pointer and the messages never come from two different responses.
C13_LastResponseWins ==
  /\ [][last'.op = "loadConversation.return" =>
        \A request \in LoadRequests : \A response \in LoadResponses(request.id) :
          loadConversationResume(request, response) =>
            /\ (response.kind = "ok" /\ CanMap(response.body)) =>
                 /\ messages' = MapMessages(response.body.messages.elems)
                 /\ currentConversationId' = request.id
            /\ \A other \in LoadRequests :
                 CopiesIn(other, pending') =
                   CopiesIn(other, pending) - (IF other = request THEN 1 ELSE 0)]_vars
  /\ [](PointerAndMessagesAgree)

\* Two loads overlapped and both responses have been applied, one right after
\* the other: that for c2 first, that for c1 over it.
C13_Witness ==
  /\ last.op = "loadConversation.return" /\ last.applied
  /\ last.overlapped = "c2"
  /\ currentConversationId = "c1"
  /\ messages = MapMessages(History("c1"))

\* The body has a messages list and every message in it has its four fields.
WellFormed(body) ==
  /\ body.messages.type = "array"
  /\ \A k \in 1..Len(body.messages.elems) :
       LET m == body.messages.elems[k]
       IN /\ m.type = "object"
          /\ Undefined \notin {m.id, m.text, m.sender, m.timestamp}

\* C14: a loadConversation response that is ok with a malformed body (no
\* messages list, or a message without its id, text, sender or timestamp)
\* leaves messages and currentConversationId as they were, as a failed fetch
\* does, and the call returns normally.
C14_MalformedIsFailure ==
  [][last'.op = "loadConversation.return" =>
     \A request \in LoadRequests : \A response \in LoadResponses(request.id) :
       (/\ loadConversationResume(request, response)
        /\ response.kind = "ok" /\ ~WellFormed(response.body)) =>
         /\ messages' = messages
         /\ currentConversationId' = currentConversationId
         /\ last'.result = "resolved"]_vars

ListAndDeleteSteps == {"loadAgentConversations", "loadAgentConversations.return",
                       "deleteConversation", "deleteConversation.return"}

\* C15: no step of loadAgentConversations or deleteConversation (the call,
\* the return after any response, the reset of a delete of the open
\* conversation) changes isLoading.
C15_ListAndDeleteKeepLoading ==
  [][last'.op \in ListAndDeleteSteps => isLoading' = isLoading]_vars

\* A delete of the open conversation has reset the store while a load is
\* outstanding, and the flag is still up.
C15_Witness ==
  /\ last.op = "deleteConversation.return" /\ last.applied /\ last.reset
  /\ LoadRequests # {}
  /\ isLoading

\* C16: addMessage changes the message list and nothing else, whether a
\* conversation is open or not: currentConversationId, conversations and
\* isLoading are as they were and no request is issued or answered.
C16_AddMessageFrame ==
  [][last'.op = "addMessage" =>
       /\ messages' # messages
       /\ currentConversationId' = currentConversationId
       /\ conversations' = conversations
       /\ isLoading' = isLoading
       /\ pending' = pending]_vars

\* A message has been added to an open conversation, with a cached list, the
\* flag up and a request outstanding.
C16_Witness ==
  /\ last.op = "addMessage"
  /\ currentConversationId = "c1"
  /\ conversations # <<>>
  /\ isLoading
  /\ pending # EmptyBag

\* The cached list has an entry of the given id.
Listed(list, id) == \E k \in 1..Len(list) : list[k].id = id

\* C17: once a deleteConversation(id) has succeeded, a list response that
\* belongs to a request issued before that success does not put id back into
\* conversations.  Stated for the step right after the success: a list
\* request answered then was outstanding when the delete succeeded.
C17_DeletedStaysAbsent ==
  [][(/\ last.op = "deleteConversation.return" /\ last.applied
      /\ last'.op = "loadAgentConversations.return") =>
       \A id \in DeletableIds : ~Listed(conversations', id)]_vars

\* C18: a loadConversation response that is ok and arrives on a list holding
\* messages added by addMessage while the request was outstanding leaves
\* messages equal to the remapped history: none of the local messages stays.
C18_LoadDropsLocal ==
  [][last'.op = "loadConversation.return" =>
     \A request \in LoadRequests : \A response \in LoadResponses(request.id) :
       (/\ loadConversationResume(request, response)
        /\ response.kind = "ok" /\ CanMap(response.body)
        /\ HasLocalMessage(messages)) =>
         /\ messages' = MapMessages(response.body.messages.elems)
         /\ ~HasLocalMessage(messages')]_vars

\* The history of c2 has replaced a list that held a message typed while the
\* load was outstanding.
C18_Witness ==
  /\ last.op = "loadConversation.return" /\ last.applied /\ last.droppedLocal
  /\ currentConversationId = "c2"
  /\ messages = MapMessages(History("c2"))

\* C19: the store starts with no messages, no conversations, no open
\* conversation and the flag down, and currentConversationId is set to an id
\* by nothing but a loadConversation of that id whose response is ok and is
\* applied: in every state it is null or such an id.
C19_PointerOnlyFromLoads ==
  /\ messages = <<>> /\ conversations = <<>>
  /\ currentConversationId = None /\ isLoading = FALSE
  /\ [][(currentConversationId' # currentConversationId
           /\ currentConversationId' # None) =>
          /\ last'.op = "loadConversation.return" /\ last'.applied
          /\ \E request \in LoadRequests : request.id = currentConversationId']_vars
  /\ [](currentConversationId \in {None} \cup ConversationIds)

\* A conversation opened by an earlier load is still open after a load that
\* failed, messages added to it and the list fetched.
C19_Witness ==
  /\ last.op = "loadConversation.return" /\ ~last.applied
  /\ currentConversationId = "c1"
  /\ HasLocalMessage(messages)
  /\ conversations # <<>>

====
